---- MODULE Spec2Model ----
(***************************************************************************)
(* State-machine model of src/app.js: the single-record sync handler       *)
(* (POST /sync-kbo-data/:kboStructuredIdUuid), the scheduled sweep         *)
(* (healAbbWithWegWijsData), the two reconciliation steps they share       *)
(* (createOrUpdateKboOrg, createOrUpdateOvoStructure) and the two external *)
(* registry queries (getWegwijsOrganisation, getAllWegwijsOrganisations).  *)
(*                                                                         *)
(* Every `await` of the source is one action: the collaborator call takes  *)
(* effect and returns, or throws.  The synchronous code between two awaits *)
(* touches only the locals of the running invocation.  The collaborators   *)
(* of ./lib/queries, ./lib/wegwijs-api and ./api-error-handler are not     *)
(* part of src/; their effect is modelled from the specification (sections *)
(* 4.2, 4.3, 4.4 and 6).                                                   *)
(*                                                                         *)
(* Optional values are sequences of length at most one: <<>> is an absent  *)
(* (null / undefined) value, <<v>> a present one.                          *)
(***************************************************************************)
EXTENDS Integers, Sequences, FiniteSets, TLC

\* ------------------------------------------------------------- bounds
NumOrgs == 2
MaxTime == 2
MaxPages == 3
MaxPageLen == 2
MaxRuns == 1

\* ------------------------------------------------------------- values
None == <<>>
Some(x) == <<x>>

Orgs == 1..NumOrgs
\* The :kboStructuredIdUuid of a request; 0 names no record of the store.
Uuids == 0..NumOrgs
\* Business identifier (KBO number) values; organisation o carries value o.
Kbos == 1..NumOrgs
Times == 1..MaxTime
OptTime == {None} \cup {Some(t) : t \in Times}
OvoNumbers == {"OVO001", "OVO002"}
OptOvo == {None} \cup {Some(v) : v \in OvoNumbers}

AbbOrgUri(o) == <<"abbOrg", o, 0>>
KboIdUri(o) == <<"kboId", o, 0>>
KboStructuredIdUri(o) == <<"kboStructuredId", o, 0>>
OvoStructuredIdUri(o, n) == <<"ovoStructuredId", o, n>>

Procs == {"http", "cron", "call"}

\* ------------------------------------------------------------- state
VARIABLES
  kboOf,                   \* store: the business identifier value of each organisation (optional)
  kboOrgs,                 \* store: per organisation, the `modified` of each linked KBO organisation
  ovoStructs,              \* store: per organisation, the OVO value of each OVO structure
  wegwijs,                 \* external registry: the pages the scroll query returns, in order
  pc,                      \* per invocation: the await it is suspended at
  runs,                    \* per trigger: invocations started so far
  req,                     \* req.params.kboStructuredIdUuid
  abbOrganizationInfo,     \* the internal record being reconciled
  kboFields,               \* the external snapshot matched to it
  kboOrganizationInfo,     \* what getKboOrganizationInfo returned
  ovoStructuredIdUri,      \* parameter/local of createOrUpdateOvoStructure
  allAbbKboOrganizations,  \* sweep: the internal population read at its start
  organisations,           \* sweep: the mapping built by getAllWegwijsOrganisations
  scrollPos,               \* sweep: number of pages fetched so far
  idx,                     \* sweep: position of the for-of loop
  log,                     \* per invocation: collaborator calls issued, in order
  res,                     \* per request: responses sent (res.status(..).send(..))
  err                      \* per invocation: the step whose exception was caught

vars == <<kboOf, kboOrgs, ovoStructs, wegwijs, pc, runs, req, abbOrganizationInfo,
          kboFields, kboOrganizationInfo, ovoStructuredIdUri, allAbbKboOrganizations,
          organisations, scrollPos, idx, log, res, err>>

static == <<kboOf, wegwijs>>
store == <<kboOrgs, ovoStructs>>
sweepLocals == <<allAbbKboOrganizations, organisations, scrollPos, idx>>

\* ------------------------------------------------------------- helpers
RECURSIVE Flatten(_)
Flatten(pages) ==
  IF pages = <<>> THEN <<>> ELSE Head(pages) \o Flatten(Tail(pages))

RECURSIVE SelectKbo(_, _)
SelectKbo(items, kbo) ==
  IF items = <<>> THEN <<>>
  ELSE IF Head(items).kboNumber = kbo
       THEN <<Head(items)>> \o SelectKbo(Tail(items), kbo)
       ELSE SelectKbo(Tail(items), kbo)

\* One collaborator call as it appears in an invocation's log.
\* `uri` is the URI argument, `ovo` the OVO value argument, `ret` a returned URI.
Call(op, o, uri, ovo, threw) ==
  [op |-> op, org |-> o, uri |-> uri, ovo |-> ovo, ret |-> None, threw |-> threw]

Returning(call, uri) == [call EXCEPT !.ret = Some(uri)]

\* ---------------------------------------------- collaborators (./lib, not in src/)
\* isUpdateNeeded of ./lib/wegwijs-api (specification 4.2).
isUpdateNeeded(changeTime, modified) ==
  /\ changeTime # None
  /\ \/ modified = None
     \/ changeTime[1] > modified[1]

\* getKboFields of ./lib/wegwijs-api: the typed fields of one organisation of a
\* response; `parents` (requested by the scroll query only) is not among them.
getKboFields(organisation) ==
  [kboNumber |-> organisation.kboNumber,
   changeTime |-> organisation.changeTime,
   ovoNumber |-> organisation.ovoNumber]

\* What the store can answer for one organisation: its identifiers and, when it
\* has an OVO structure, that structure's URI and value.
AbbInfoOf(o) ==
  IF ovoStructs[o] = <<>>
  THEN {[org |-> o, kbo |-> kboOf[o], ovo |-> None, ovoStructuredIdUri |-> None]}
  ELSE {[org |-> o, kbo |-> kboOf[o], ovo |-> ovoStructs[o][n],
         ovoStructuredIdUri |-> Some(OvoStructuredIdUri(o, n))] :
          n \in 1..Len(ovoStructs[o])}

\* getAbbOrganizationInfo(uuid) of ./lib/queries: null for an unknown uuid.
getAbbOrganizationInfoResult(uuid) ==
  IF uuid \in Orgs THEN {Some(a) : a \in AbbInfoOf(uuid)} ELSE {None}

\* getKboOrganizationInfo(abbOrgUri) of ./lib/queries: null when the
\* organisation has no linked KBO organisation.
getKboOrganizationInfoResult(abbOrgUri) ==
  LET o == abbOrgUri[2] IN
  IF kboOrgs[o] = <<>> THEN {None}
  ELSE {Some([org |-> o, n |-> n, modified |-> kboOrgs[o][n]]) : n \in 1..Len(kboOrgs[o])}

\* createKboOrg(kboFields, kboIdentifierUri, abbOrgUri) of ./lib/queries: a new
\* KBO organisation, populated from the snapshot, linked to the organisation.
createKboOrgEffect(fields, kboIdentifierUri, abbOrgUri) ==
  [kboOrgs EXCEPT ![abbOrgUri[2]] = Append(@, fields.changeTime)]

\* updateKboOrg(kboFields, kboOrganizationInfo) of ./lib/queries: full-field
\* overwrite of the existing KBO organisation.
updateKboOrgEffect(fields, info) ==
  [kboOrgs EXCEPT ![info.org][info.n] = fields.changeTime]

\* constructOvoStructure(kboStructuredIdUri) of ./lib/queries: a new OVO
\* structure under the structured identifier; returns its URI.
constructOvoStructureResult(kboStructuredIdUri) ==
  OvoStructuredIdUri(kboStructuredIdUri[2], Len(ovoStructs[kboStructuredIdUri[2]]) + 1)

constructOvoStructureEffect(kboStructuredIdUri) ==
  [ovoStructs EXCEPT ![kboStructuredIdUri[2]] = Append(@, None)]

\* updateOvoNumberAndUri(ovoStructuredIdUri, wegwijsOvo) of ./lib/queries.
updateOvoNumberAndUriEffect(uri, wegwijsOvo) ==
  [ovoStructs EXCEPT ![uri[2]][uri[3]] = wegwijsOvo]

\* The external registry's answer to q=kboNumber:<kbo>: the matching
\* organisations, in registry order.
wegwijsSearch(kbo) == SelectKbo(Flatten(wegwijs), kbo)

\* The k-th page of the scroll query; past the last page the cursor is
\* exhausted and every page is empty.
wegwijsPage(k) == IF k <= Len(wegwijs) THEN wegwijs[k] ELSE <<>>

\* The error kinds of the specification's taxonomy (section 7), by the step
\* that threw: a rejected fetch is an UpstreamFetchError, an undecodable body or
\* x-search-metadata header an UpstreamShapeError, a failed store write a
\* PersistenceError, anything else (a failed store read) an UnhandledError.
ErrorKind(step) ==
  IF step = "fetch" THEN "UpstreamFetchError"
  ELSE IF step \in {"response.json", "x-search-metadata"} THEN "UpstreamShapeError"
  ELSE IF step \in {"createKboOrg", "updateKboOrg", "constructOvoStructure",
                    "updateOvoNumberAndUri"} THEN "PersistenceError"
  ELSE "UnhandledError"

\* ------------------------------------------------- error boundaries
\* Mutation of Caught: the handler has no catch, the exception escapes and the
\* request is left unanswered.
Caught_withoutResponse(p, step) ==
  /\ err' = [err EXCEPT ![p] = Some(step)]
  /\ pc' = [pc EXCEPT ![p] = "done"]
  /\ res' = res

\* Mutation of Caught: a failed registry request is answered as "no data".
Caught_fetchAsNoData(p, step) ==
  /\ err' = [err EXCEPT ![p] = Some(step)]
  /\ pc' = [pc EXCEPT ![p] = "done"]
  /\ res' = [res EXCEPT ![p] =
               IF p # "http" THEN @
               ELSE IF step = "fetch" THEN Append(@, "ERROR_NO_DATA_WEGWIJS")
               ELSE Append(@, "CUSTOM_SERVER_ERROR")]

\* Mutation of Caught: nothing catches; the rejection is unhandled and ends the
\* process, and with it every invocation in flight and every later trigger.
Caught_endingProcess(p, step) ==
  /\ err' = [err EXCEPT ![p] = Some(step)]
  /\ pc' = [q \in Procs |-> "exit"]
  /\ res' = res

\* Mutation of Caught: the handler catches a failure of the business-identifier
\* step on its own and goes on to the OVO step.
Caught_aroundKboStepOnly(p, step) ==
  LET goesOn == p = "http" /\ step \in {"getKboOrganizationInfo", "createKboOrg", "updateKboOrg"}
  IN /\ err' = [err EXCEPT ![p] = Some(step)]
     /\ pc' = [pc EXCEPT ![p] = IF goesOn THEN "createOrUpdateOvoStructure" ELSE "done"]
     /\ res' = [res EXCEPT ![p] =
                  IF p = "http" /\ ~goesOn THEN Append(@, "CUSTOM_SERVER_ERROR") ELSE @]

\* Mutation of Caught: the sweep catches inside its loop and goes on with the
\* next record.
Caught_sweepContinues(p, step) ==
  /\ err' = [err EXCEPT ![p] = Some(step)]
  /\ pc' = [pc EXCEPT ![p] = IF p = "cron" /\ idx[p] >= 1 THEN "forOf" ELSE "done"]
  /\ res' = [res EXCEPT ![p] = IF p = "http" THEN Append(@, "CUSTOM_SERVER_ERROR") ELSE @]

\* The catch of the invocation that is running: the request handler answers
\* CUSTOM_SERVER_ERROR (app.js 54-56), healAbbWithWegWijsData logs and returns
\* (app.js 149-151); a direct call lets the exception out.
Caught(p, step) ==
  /\ err' = [err EXCEPT ![p] = Some(step)]
  /\ pc' = [pc EXCEPT ![p] = "done"]
  /\ res' = [res EXCEPT ![p] = IF p = "http" THEN Append(@, "CUSTOM_SERVER_ERROR") ELSE @]

Logged(p, call) == log' = [log EXCEPT ![p] = Append(@, call)]

\* ------------------------------------------------- single-record handler
\* POST /sync-kbo-data/:kboStructuredIdUuid arrives, as one of at most n requests.
RequestWithin(p, n) ==
  /\ p = "http"
  /\ pc[p] \in {"idle", "done"}
  /\ runs[p] < n
  /\ \E uuid \in Uuids : req' = [req EXCEPT ![p] = uuid]
  /\ runs' = [runs EXCEPT ![p] = @ + 1]
  /\ pc' = [pc EXCEPT ![p] = "getAbbOrganizationInfo"]
  /\ abbOrganizationInfo' = [abbOrganizationInfo EXCEPT ![p] = None]
  /\ kboFields' = [kboFields EXCEPT ![p] = None]
  /\ kboOrganizationInfo' = [kboOrganizationInfo EXCEPT ![p] = None]
  /\ ovoStructuredIdUri' = [ovoStructuredIdUri EXCEPT ![p] = None]
  /\ log' = [log EXCEPT ![p] = <<>>]
  /\ res' = [res EXCEPT ![p] = <<>>]
  /\ err' = [err EXCEPT ![p] = None]
  /\ UNCHANGED <<static, store, sweepLocals>>

Request(p) == RequestWithin(p, MaxRuns)

\* Mutation of getAbbOrganizationInfo: only a missing record ends the request;
\* a record without business identifier goes on to the registry query.
getAbbOrganizationInfo_missingRecordOnly(p) ==
  /\ pc[p] = "getAbbOrganizationInfo"
  /\ \/ /\ \E info \in getAbbOrganizationInfoResult(req[p]) :
             /\ abbOrganizationInfo' = [abbOrganizationInfo EXCEPT ![p] = info]
             /\ IF info = None
                THEN /\ res' = [res EXCEPT ![p] = Append(@, "STATUS_NO_DATA_OP")]
                     /\ pc' = [pc EXCEPT ![p] = "done"]
                ELSE /\ res' = res
                     /\ pc' = [pc EXCEPT ![p] = "getWegwijsOrganisation"]
          /\ Logged(p, Call("getAbbOrganizationInfo", req[p], None, None, FALSE))
          /\ UNCHANGED err
       \/ /\ Caught(p, "getAbbOrganizationInfo")
          /\ Logged(p, Call("getAbbOrganizationInfo", req[p], None, None, TRUE))
          /\ UNCHANGED abbOrganizationInfo
  /\ UNCHANGED <<static, store, sweepLocals, runs, req, kboFields,
                 kboOrganizationInfo, ovoStructuredIdUri>>

\* app.js 25-31
getAbbOrganizationInfo(p) ==
  /\ pc[p] = "getAbbOrganizationInfo"
  /\ \/ /\ \E info \in getAbbOrganizationInfoResult(req[p]) :
             /\ abbOrganizationInfo' = [abbOrganizationInfo EXCEPT ![p] = info]
             /\ IF info = None \/ info[1].kbo = None
                THEN /\ res' = [res EXCEPT ![p] = Append(@, "STATUS_NO_DATA_OP")]
                     /\ pc' = [pc EXCEPT ![p] = "done"]
                ELSE /\ res' = res
                     /\ pc' = [pc EXCEPT ![p] = "getWegwijsOrganisation"]
          /\ Logged(p, Call("getAbbOrganizationInfo", req[p], None, None, FALSE))
          /\ UNCHANGED err
       \/ /\ Caught(p, "getAbbOrganizationInfo")
          /\ Logged(p, Call("getAbbOrganizationInfo", req[p], None, None, TRUE))
          /\ UNCHANGED abbOrganizationInfo
  /\ UNCHANGED <<static, store, sweepLocals, runs, req, kboFields,
                 kboOrganizationInfo, ovoStructuredIdUri>>

\* Mutation of getWegwijsOrganisation: an empty result set does not end the
\* request.
getWegwijsOrganisation_withoutEmptyCheck(p) ==
  /\ pc[p] = "getWegwijsOrganisation"
  /\ LET kbo == abbOrganizationInfo[p][1].kbo
         kboNumber == IF kbo = None THEN 0 ELSE kbo[1]
         data == wegwijsSearch(kboNumber)
     IN \/ /\ kboFields' = [kboFields EXCEPT ![p] =
                              IF Len(data) # 0 THEN Some(getKboFields(data[1])) ELSE None]
           /\ res' = res
           /\ pc' = [pc EXCEPT ![p] = "createOrUpdateKboOrg"]
           /\ Logged(p, Call("fetch", kboNumber, None, None, FALSE))
           /\ UNCHANGED err
        \/ /\ \E step \in {"fetch", "response.json"} : Caught(p, step)
           /\ Logged(p, Call("fetch", kboNumber, None, None, TRUE))
           /\ UNCHANGED kboFields
  /\ UNCHANGED <<static, store, sweepLocals, runs, req, abbOrganizationInfo,
                 kboOrganizationInfo, ovoStructuredIdUri>>

\* app.js 34-38 and 159-167
getWegwijsOrganisation(p) ==
  /\ pc[p] = "getWegwijsOrganisation"
  /\ LET kbo == abbOrganizationInfo[p][1].kbo
         \* an undefined kboNumber (0 here) matches no organisation
         kboNumber == IF kbo = None THEN 0 ELSE kbo[1]
         data == wegwijsSearch(kboNumber)
     IN \/ /\ kboFields' = [kboFields EXCEPT ![p] =
                              IF Len(data) # 0 THEN Some(getKboFields(data[1])) ELSE None]
           /\ IF Len(data) = 0
              THEN /\ res' = [res EXCEPT ![p] = Append(@, "ERROR_NO_DATA_WEGWIJS")]
                   /\ pc' = [pc EXCEPT ![p] = "done"]
              ELSE /\ res' = res
                   /\ pc' = [pc EXCEPT ![p] = "createOrUpdateKboOrg"]
           /\ Logged(p, Call("fetch", kboNumber, None, None, FALSE))
           /\ UNCHANGED err
        \/ /\ \E step \in {"fetch", "response.json"} : Caught(p, step)
           /\ Logged(p, Call("fetch", kboNumber, None, None, TRUE))
           /\ UNCHANGED kboFields
  /\ UNCHANGED <<static, store, sweepLocals, runs, req, abbOrganizationInfo,
                 kboOrganizationInfo, ovoStructuredIdUri>>

\* app.js 53
respondOk(p) ==
  /\ p = "http"
  /\ pc[p] = "return"
  /\ res' = [res EXCEPT ![p] = Append(@, "OK")]
  /\ pc' = [pc EXCEPT ![p] = "done"]
  /\ UNCHANGED <<static, store, sweepLocals, runs, req, abbOrganizationInfo, kboFields,
                 kboOrganizationInfo, ovoStructuredIdUri, log, err>>

\* ------------------------------------------------- reconciliation steps
\* Where control goes when createOrUpdateKboOrg returns: both callers go on
\* to createOrUpdateOvoStructure (app.js 46 and 140); a direct call is over.
afterCreateOrUpdateKboOrg(p) ==
  IF p = "call" THEN "done" ELSE "createOrUpdateOvoStructure"

\* Where control goes when createOrUpdateOvoStructure returns: the handler
\* answers (app.js 53), the sweep takes the next record (app.js 131).
afterCreateOrUpdateOvoStructure(p) ==
  IF p = "call" THEN "done" ELSE IF p = "http" THEN "return" ELSE "forOf"

\* app.js 86
isCreateNeeded(info, fields) == info = None /\ fields # None

\* Mutation of isUpdateBranch: the timestamps are not compared.
isUpdateBranch_ignoringTimestamps(info, fields) == info # None /\ fields # None

\* app.js 91-92; kboFields?.changeTime is undefined for an absent snapshot
isUpdateBranch(info, fields) ==
  /\ info # None
  /\ isUpdateNeeded(IF fields = None THEN None ELSE fields[1].changeTime,
                    info[1].modified)

\* Mutation of createOrUpdateKboOrg: the read waits while another invocation is
\* between its read of a link and its write (one writer at a time).
createOrUpdateKboOrg_oneAtATime(p) ==
  /\ pc[p] = "createOrUpdateKboOrg"
  /\ \A q \in Procs \ {p} : pc[q] \notin {"createKboOrg", "updateKboOrg"}
  /\ LET abbOrgUri == AbbOrgUri(abbOrganizationInfo[p][1].org)
     IN \/ /\ \E info \in getKboOrganizationInfoResult(abbOrgUri) :
                /\ kboOrganizationInfo' = [kboOrganizationInfo EXCEPT ![p] = info]
                /\ pc' = [pc EXCEPT ![p] =
                            IF isCreateNeeded(info, kboFields[p]) THEN "createKboOrg"
                            ELSE IF isUpdateBranch(info, kboFields[p]) THEN "updateKboOrg"
                            ELSE afterCreateOrUpdateKboOrg(p)]
           /\ Logged(p, Call("getKboOrganizationInfo", abbOrgUri[2], abbOrgUri, None, FALSE))
           /\ UNCHANGED <<err, res>>
        \/ /\ Caught(p, "getKboOrganizationInfo")
           /\ Logged(p, Call("getKboOrganizationInfo", abbOrgUri[2], abbOrgUri, None, TRUE))
           /\ UNCHANGED kboOrganizationInfo
  /\ UNCHANGED <<static, store, sweepLocals, runs, req, abbOrganizationInfo, kboFields,
                 ovoStructuredIdUri>>

\* app.js 84-96: the read, then the branch taken
createOrUpdateKboOrg(p) ==
  /\ pc[p] = "createOrUpdateKboOrg"
  /\ LET abbOrgUri == AbbOrgUri(abbOrganizationInfo[p][1].org)
     IN \/ /\ \E info \in getKboOrganizationInfoResult(abbOrgUri) :
                /\ kboOrganizationInfo' = [kboOrganizationInfo EXCEPT ![p] = info]
                /\ pc' = [pc EXCEPT ![p] =
                            IF isCreateNeeded(info, kboFields[p]) THEN "createKboOrg"
                            ELSE IF isUpdateBranch(info, kboFields[p]) THEN "updateKboOrg"
                            ELSE afterCreateOrUpdateKboOrg(p)]
           /\ Logged(p, Call("getKboOrganizationInfo", abbOrgUri[2], abbOrgUri, None, FALSE))
           /\ UNCHANGED <<err, res>>
        \/ /\ Caught(p, "getKboOrganizationInfo")
           /\ Logged(p, Call("getKboOrganizationInfo", abbOrgUri[2], abbOrgUri, None, TRUE))
           /\ UNCHANGED kboOrganizationInfo
  /\ UNCHANGED <<static, store, sweepLocals, runs, req, abbOrganizationInfo, kboFields,
                 ovoStructuredIdUri>>

\* app.js 89
createKboOrg(p) ==
  /\ pc[p] = "createKboOrg"
  /\ LET o == abbOrganizationInfo[p][1].org
     IN \/ /\ kboOrgs' = createKboOrgEffect(kboFields[p][1], KboIdUri(o), AbbOrgUri(o))
           /\ pc' = [pc EXCEPT ![p] = afterCreateOrUpdateKboOrg(p)]
           /\ Logged(p, Call("createKboOrg", o, AbbOrgUri(o), None, FALSE))
           /\ UNCHANGED <<err, res>>
        \/ /\ Caught(p, "createKboOrg")
           /\ Logged(p, Call("createKboOrg", o, AbbOrgUri(o), None, TRUE))
           /\ UNCHANGED kboOrgs
  /\ UNCHANGED <<static, ovoStructs, sweepLocals, runs, req, abbOrganizationInfo, kboFields,
                 kboOrganizationInfo, ovoStructuredIdUri>>

\* app.js 95
updateKboOrg(p) ==
  /\ pc[p] = "updateKboOrg"
  /\ LET k == kboOrganizationInfo[p][1]
     IN \/ /\ kboOrgs' = updateKboOrgEffect(kboFields[p][1], k)
           /\ pc' = [pc EXCEPT ![p] = afterCreateOrUpdateKboOrg(p)]
           /\ Logged(p, Call("updateKboOrg", k.org, AbbOrgUri(k.org), None, FALSE))
           /\ UNCHANGED <<err, res>>
        \/ /\ Caught(p, "updateKboOrg")
           /\ Logged(p, Call("updateKboOrg", k.org, AbbOrgUri(k.org), None, TRUE))
           /\ UNCHANGED kboOrgs
  /\ UNCHANGED <<static, ovoStructs, sweepLocals, runs, req, abbOrganizationInfo, kboFields,
                 kboOrganizationInfo, ovoStructuredIdUri>>

\* Mutation of isOvoWriteNeeded: the external value is written whenever it is
\* present, equal to the internal one or not.
isOvoWriteNeeded_whenPresent(wegwijsOvo, abbOvo) == wegwijsOvo # None

\* Mutation of isOvoWriteNeeded: the guard on an absent external value is dropped.
isOvoWriteNeeded_withoutGuard(wegwijsOvo, abbOvo) == wegwijsOvo # abbOvo

\* app.js 114: wegwijsOvo && wegwijsOvo != abbOvo
isOvoWriteNeeded(wegwijsOvo, abbOvo) == wegwijsOvo # None /\ wegwijsOvo # abbOvo

\* Mutation of createOrUpdateOvoStructure: a structure is constructed even when
\* the record already has one.
createOrUpdateOvoStructure_alwaysConstruct(p) ==
  /\ pc[p] = "createOrUpdateOvoStructure"
  /\ LET a == abbOrganizationInfo[p][1]
     IN /\ ovoStructuredIdUri' = [ovoStructuredIdUri EXCEPT ![p] = a.ovoStructuredIdUri]
        /\ pc' = [pc EXCEPT ![p] =
                    IF isOvoWriteNeeded(kboFields[p][1].ovoNumber, a.ovo)
                    THEN "constructOvoStructure"
                    ELSE afterCreateOrUpdateOvoStructure(p)]
  /\ UNCHANGED <<static, store, sweepLocals, runs, req, abbOrganizationInfo, kboFields,
                 kboOrganizationInfo, log, res, err>>

\* app.js 106-115: called with (kboFields.ovoNumber, abbOrganizationInfo.ovo,
\* abbOrganizationInfo.kboStructuredIdUri, abbOrganizationInfo.ovoStructuredIdUri)
createOrUpdateOvoStructure(p) ==
  /\ pc[p] = "createOrUpdateOvoStructure"
  /\ LET a == abbOrganizationInfo[p][1]
     IN /\ ovoStructuredIdUri' = [ovoStructuredIdUri EXCEPT ![p] = a.ovoStructuredIdUri]
        /\ pc' = [pc EXCEPT ![p] =
                    IF isOvoWriteNeeded(kboFields[p][1].ovoNumber, a.ovo)
                    THEN IF a.ovoStructuredIdUri = None
                         THEN "constructOvoStructure"
                         ELSE "updateOvoNumberAndUri"
                    ELSE afterCreateOrUpdateOvoStructure(p)]
  /\ UNCHANGED <<static, store, sweepLocals, runs, req, abbOrganizationInfo, kboFields,
                 kboOrganizationInfo, log, res, err>>

\* app.js 116
constructOvoStructure(p) ==
  /\ pc[p] = "constructOvoStructure"
  /\ LET kboStructuredIdUri == KboStructuredIdUri(abbOrganizationInfo[p][1].org)
     IN \/ /\ ovoStructs' = constructOvoStructureEffect(kboStructuredIdUri)
           /\ ovoStructuredIdUri' = [ovoStructuredIdUri EXCEPT ![p] =
                                       Some(constructOvoStructureResult(kboStructuredIdUri))]
           /\ pc' = [pc EXCEPT ![p] = "updateOvoNumberAndUri"]
           /\ Logged(p, Returning(Call("constructOvoStructure", kboStructuredIdUri[2],
                                       kboStructuredIdUri, None, FALSE),
                                  constructOvoStructureResult(kboStructuredIdUri)))
           /\ UNCHANGED <<err, res>>
        \/ /\ Caught(p, "constructOvoStructure")
           /\ Logged(p, Call("constructOvoStructure", kboStructuredIdUri[2],
                             kboStructuredIdUri, None, TRUE))
           /\ UNCHANGED <<ovoStructs, ovoStructuredIdUri>>
  /\ UNCHANGED <<static, kboOrgs, sweepLocals, runs, req, abbOrganizationInfo, kboFields,
                 kboOrganizationInfo>>

\* app.js 118
updateOvoNumberAndUri(p) ==
  /\ pc[p] = "updateOvoNumberAndUri"
  /\ LET uri == ovoStructuredIdUri[p][1]
         wegwijsOvo == kboFields[p][1].ovoNumber
     IN \/ /\ ovoStructs' = updateOvoNumberAndUriEffect(uri, wegwijsOvo)
           /\ pc' = [pc EXCEPT ![p] = afterCreateOrUpdateOvoStructure(p)]
           /\ Logged(p, Call("updateOvoNumberAndUri", uri[2], uri, wegwijsOvo, FALSE))
           /\ UNCHANGED <<err, res>>
        \/ /\ Caught(p, "updateOvoNumberAndUri")
           /\ Logged(p, Call("updateOvoNumberAndUri", uri[2], uri, wegwijsOvo, TRUE))
           /\ UNCHANGED ovoStructs
  /\ UNCHANGED <<static, kboOrgs, sweepLocals, runs, req, abbOrganizationInfo, kboFields,
                 kboOrganizationInfo, ovoStructuredIdUri>>

\* ------------------------------------------------- scheduled sweep
\* Mutation of forEachOrganisation: an identifier already in the mapping is
\* not overwritten.
RECURSIVE forEachOrganisation_firstWins(_, _)
forEachOrganisation_firstWins(data, orgs) ==
  IF data = <<>> THEN orgs
  ELSE LET fields == getKboFields(Head(data))
       IN forEachOrganisation_firstWins(
            Tail(data),
            IF orgs[fields.kboNumber] = None
            THEN [orgs EXCEPT ![fields.kboNumber] = Some(fields)]
            ELSE orgs)

\* app.js 186-189: data.forEach(organisation => organisations[kboNumber] = kboFields)
RECURSIVE forEachOrganisation(_, _)
forEachOrganisation(data, orgs) ==
  IF data = <<>> THEN orgs
  ELSE LET fields == getKboFields(Head(data))
       IN forEachOrganisation(Tail(data), [orgs EXCEPT ![fields.kboNumber] = Some(fields)])

\* getAllAbbKboOrganizations() of ./lib/queries: one record per organisation
\* that carries a business identifier, in store order.
RECURSIVE getAllAbbKboOrganizationsResult(_)
getAllAbbKboOrganizationsResult(o) ==
  IF o > NumOrgs THEN {<<>>}
  ELSE IF kboOf[o] = None THEN getAllAbbKboOrganizationsResult(o + 1)
  ELSE {<<a>> \o rest : a \in AbbInfoOf(o), rest \in getAllAbbKboOrganizationsResult(o + 1)}

\* app.js 59-65: the cron job fires and calls healAbbWithWegWijsData, as one of
\* at most n runs.
CronJobWithin(p, n) ==
  /\ p = "cron"
  /\ pc[p] \in {"idle", "done"}
  /\ runs[p] < n
  /\ runs' = [runs EXCEPT ![p] = @ + 1]
  /\ pc' = [pc EXCEPT ![p] = "getAllAbbKboOrganizations"]
  /\ abbOrganizationInfo' = [abbOrganizationInfo EXCEPT ![p] = None]
  /\ kboFields' = [kboFields EXCEPT ![p] = None]
  /\ kboOrganizationInfo' = [kboOrganizationInfo EXCEPT ![p] = None]
  /\ ovoStructuredIdUri' = [ovoStructuredIdUri EXCEPT ![p] = None]
  /\ allAbbKboOrganizations' = [allAbbKboOrganizations EXCEPT ![p] = <<>>]
  /\ organisations' = [organisations EXCEPT ![p] = [k \in Kbos |-> None]]
  /\ scrollPos' = [scrollPos EXCEPT ![p] = 0]
  /\ idx' = [idx EXCEPT ![p] = 0]
  /\ log' = [log EXCEPT ![p] = <<>>]
  /\ err' = [err EXCEPT ![p] = None]
  /\ UNCHANGED <<static, store, req, res>>

CronJob(p) == CronJobWithin(p, MaxRuns)

\* app.js 128
getAllAbbKboOrganizations(p) ==
  /\ pc[p] = "getAllAbbKboOrganizations"
  /\ \/ /\ \E all \in getAllAbbKboOrganizationsResult(1) :
             allAbbKboOrganizations' = [allAbbKboOrganizations EXCEPT ![p] = all]
        /\ pc' = [pc EXCEPT ![p] = "getAllWegwijsOrganisations"]
        /\ Logged(p, Call("getAllAbbKboOrganizations", 0, None, None, FALSE))
        /\ UNCHANGED <<err, res>>
     \/ /\ Caught(p, "getAllAbbKboOrganizations")
        /\ Logged(p, Call("getAllAbbKboOrganizations", 0, None, None, TRUE))
        /\ UNCHANGED allAbbKboOrganizations
  /\ UNCHANGED <<static, store, runs, req, abbOrganizationInfo, kboFields,
                 kboOrganizationInfo, ovoStructuredIdUri, organisations, scrollPos, idx>>

\* app.js 175-189: the initial request, its x-search-metadata header and its
\* body; then the first pass of the do-while body folds that page.
getAllWegwijsOrganisations(p) ==
  /\ pc[p] = "getAllWegwijsOrganisations"
  /\ \/ /\ organisations' = [organisations EXCEPT ![p] =
                               forEachOrganisation(wegwijsPage(1), [k \in Kbos |-> None])]
        /\ scrollPos' = [scrollPos EXCEPT ![p] = 1]
        /\ pc' = [pc EXCEPT ![p] = "scroll"]
        /\ Logged(p, Call("fetch", 0, None, None, FALSE))
        /\ UNCHANGED <<err, res>>
     \/ /\ \E step \in {"fetch", "x-search-metadata", "response.json"} : Caught(p, step)
        /\ Logged(p, Call("fetch", 0, None, None, TRUE))
        /\ UNCHANGED <<organisations, scrollPos>>
  /\ UNCHANGED <<static, store, runs, req, abbOrganizationInfo, kboFields,
                 kboOrganizationInfo, ovoStructuredIdUri, allAbbKboOrganizations, idx>>

\* Mutation of scroll: a failed scroll request ends the loop and the mapping
\* built so far is returned.
scroll_returningPartial(p) ==
  /\ pc[p] = "scroll"
  /\ \/ /\ LET data == wegwijsPage(scrollPos[p] + 1)
           IN IF Len(data) # 0
              THEN /\ organisations' = [organisations EXCEPT ![p] =
                                          forEachOrganisation(data, @)]
                   /\ pc' = pc
              ELSE /\ organisations' = organisations
                   /\ pc' = [pc EXCEPT ![p] = "forOf"]
        /\ scrollPos' = [scrollPos EXCEPT ![p] = @ + 1]
        /\ Logged(p, Call("scroll", 0, None, None, FALSE))
        /\ UNCHANGED <<err, res>>
     \/ /\ pc' = [pc EXCEPT ![p] = "forOf"]
        /\ Logged(p, Call("scroll", 0, None, None, TRUE))
        /\ UNCHANGED <<organisations, scrollPos, err, res>>
  /\ UNCHANGED <<static, store, runs, req, abbOrganizationInfo, kboFields,
                 kboOrganizationInfo, ovoStructuredIdUri, allAbbKboOrganizations, idx>>

\* app.js 191-197: the scroll request; a non-empty page is folded by the next
\* pass of the loop body, an empty one ends the loop and the mapping is returned.
scroll(p) ==
  /\ pc[p] = "scroll"
  /\ \/ /\ LET data == wegwijsPage(scrollPos[p] + 1)
           IN IF Len(data) # 0
              THEN /\ organisations' = [organisations EXCEPT ![p] =
                                          forEachOrganisation(data, @)]
                   /\ pc' = pc
              ELSE /\ organisations' = organisations
                   /\ pc' = [pc EXCEPT ![p] = "forOf"]
        /\ scrollPos' = [scrollPos EXCEPT ![p] = @ + 1]
        /\ Logged(p, Call("scroll", 0, None, None, FALSE))
        /\ UNCHANGED <<err, res>>
     \/ /\ \E step \in {"fetch", "response.json"} : Caught(p, step)
        /\ Logged(p, Call("scroll", 0, None, None, TRUE))
        /\ UNCHANGED <<organisations, scrollPos>>
  /\ UNCHANGED <<static, store, runs, req, abbOrganizationInfo, kboFields,
                 kboOrganizationInfo, ovoStructuredIdUri, allAbbKboOrganizations, idx>>

\* Mutation of forOf: the sweep starts a matched record with
\* createOrUpdateOvoStructure.
forOf_ovoStructureFirst(p) ==
  /\ pc[p] = "forOf"
  /\ IF idx[p] = Len(allAbbKboOrganizations[p])
     THEN /\ pc' = [pc EXCEPT ![p] = "done"]
          /\ UNCHANGED <<idx, abbOrganizationInfo, kboFields>>
     ELSE LET a == allAbbKboOrganizations[p][idx[p] + 1]
              wegwijsKboFields == organisations[p][a.kbo[1]]
          IN /\ idx' = [idx EXCEPT ![p] = @ + 1]
             /\ abbOrganizationInfo' = [abbOrganizationInfo EXCEPT ![p] = Some(a)]
             /\ kboFields' = [kboFields EXCEPT ![p] = wegwijsKboFields]
             /\ pc' = [pc EXCEPT ![p] =
                         IF wegwijsKboFields # None THEN "createOrUpdateOvoStructure"
                         ELSE "forOf"]
  /\ UNCHANGED <<static, store, runs, req, kboOrganizationInfo, ovoStructuredIdUri,
                 allAbbKboOrganizations, organisations, scrollPos, log, res, err>>

\* Mutation of forOf: the loop does not advance past a record without an entry
\* in the mapping.
forOf_repeatingUnmatched(p) ==
  /\ pc[p] = "forOf"
  /\ IF idx[p] = Len(allAbbKboOrganizations[p])
     THEN /\ pc' = [pc EXCEPT ![p] = "done"]
          /\ UNCHANGED <<idx, abbOrganizationInfo, kboFields>>
     ELSE LET a == allAbbKboOrganizations[p][idx[p] + 1]
              wegwijsKboFields == organisations[p][a.kbo[1]]
          IN /\ idx' = [idx EXCEPT ![p] = IF wegwijsKboFields # None THEN @ + 1 ELSE @]
             /\ abbOrganizationInfo' = [abbOrganizationInfo EXCEPT ![p] = Some(a)]
             /\ kboFields' = [kboFields EXCEPT ![p] = wegwijsKboFields]
             /\ pc' = [pc EXCEPT ![p] =
                         IF wegwijsKboFields # None THEN "createOrUpdateKboOrg" ELSE "forOf"]
  /\ UNCHANGED <<static, store, runs, req, kboOrganizationInfo, ovoStructuredIdUri,
                 allAbbKboOrganizations, organisations, scrollPos, log, res, err>>

\* Mutation of forOf: a record without an entry in the mapping ends the sweep.
forOf_endingOnUnmatched(p) ==
  /\ pc[p] = "forOf"
  /\ IF idx[p] = Len(allAbbKboOrganizations[p])
     THEN /\ pc' = [pc EXCEPT ![p] = "done"]
          /\ UNCHANGED <<idx, abbOrganizationInfo, kboFields>>
     ELSE LET a == allAbbKboOrganizations[p][idx[p] + 1]
              wegwijsKboFields == organisations[p][a.kbo[1]]
          IN /\ idx' = [idx EXCEPT ![p] = @ + 1]
             /\ abbOrganizationInfo' = [abbOrganizationInfo EXCEPT ![p] = Some(a)]
             /\ kboFields' = [kboFields EXCEPT ![p] = wegwijsKboFields]
             /\ pc' = [pc EXCEPT ![p] =
                         IF wegwijsKboFields # None THEN "createOrUpdateKboOrg" ELSE "done"]
  /\ UNCHANGED <<static, store, runs, req, kboOrganizationInfo, ovoStructuredIdUri,
                 allAbbKboOrganizations, organisations, scrollPos, log, res, err>>

\* app.js 131-133 and 148: the next record of the population, looked up in the
\* mapping; a record without an entry is skipped.
forOf(p) ==
  /\ pc[p] = "forOf"
  /\ IF idx[p] = Len(allAbbKboOrganizations[p])
     THEN /\ pc' = [pc EXCEPT ![p] = "done"]
          /\ UNCHANGED <<idx, abbOrganizationInfo, kboFields>>
     ELSE LET a == allAbbKboOrganizations[p][idx[p] + 1]
              wegwijsKboFields == organisations[p][a.kbo[1]]
          IN /\ idx' = [idx EXCEPT ![p] = @ + 1]
             /\ abbOrganizationInfo' = [abbOrganizationInfo EXCEPT ![p] = Some(a)]
             /\ kboFields' = [kboFields EXCEPT ![p] = wegwijsKboFields]
             /\ pc' = [pc EXCEPT ![p] =
                         IF wegwijsKboFields # None THEN "createOrUpdateKboOrg" ELSE "forOf"]
  /\ UNCHANGED <<static, store, runs, req, kboOrganizationInfo, ovoStructuredIdUri,
                 allAbbKboOrganizations, organisations, scrollPos, log, res, err>>

\* ------------------------------------------------- specifications
Organisations == [kboNumber : Kbos, changeTime : OptTime, ovoNumber : OptOvo]

\* Sequences over S of length at most n.
RECURSIVE SeqsUpTo(_, _)
SeqsUpTo(S, n) ==
  IF n = 0 THEN {<<>>}
  ELSE LET shorter == SeqsUpTo(S, n - 1)
       IN shorter \cup {Append(s, x) : s \in {t \in shorter : Len(t) = n - 1}, x \in S}

Idle ==
  /\ pc = [p \in Procs |-> "idle"]
  /\ runs = [p \in Procs |-> 0]
  /\ req = [p \in Procs |-> 0]
  /\ abbOrganizationInfo = [p \in Procs |-> None]
  /\ kboFields = [p \in Procs |-> None]
  /\ kboOrganizationInfo = [p \in Procs |-> None]
  /\ ovoStructuredIdUri = [p \in Procs |-> None]
  /\ allAbbKboOrganizations = [p \in Procs |-> <<>>]
  /\ organisations = [p \in Procs |-> [k \in Kbos |-> None]]
  /\ scrollPos = [p \in Procs |-> 0]
  /\ idx = [p \in Procs |-> 0]
  /\ log = [p \in Procs |-> <<>>]
  /\ res = [p \in Procs |-> <<>>]
  /\ err = [p \in Procs |-> None]

\* The store states and registry records the service starts from.  Organisation
\* 1 takes every combination of identifier, link timestamp, OVO structure and
\* registry record; the other organisations of the population take a few.
InitKboOf(o) == IF o = 1 THEN {None, Some(o)} ELSE {Some(o)}
InitKboOrgs(o) ==
  IF o = 1 THEN {<<>>} \cup {<<m>> : m \in OptTime} ELSE {<<>>, <<Some(1)>>}
InitOvoStructs(o) ==
  IF o = 1 THEN {<<>>} \cup {<<v>> : v \in OptOvo} ELSE {<<>>}
InitRecord(k) ==
  IF k = 1 THEN {None} \cup {Some(r) : r \in {x \in Organisations : x.kboNumber = k}}
  ELSE {None, Some([kboNumber |-> k, changeTime |-> Some(MaxTime), ovoNumber |-> Some("OVO002")])}

\* The registry as pages: one page per organisation it holds, in identifier order.
RECURSIVE PagesOf(_, _)
PagesOf(records, k) ==
  IF k > NumOrgs THEN <<>>
  ELSE (IF records[k] = None THEN <<>> ELSE <<records[k]>>) \o PagesOf(records, k + 1)

Init ==
  /\ kboOf \in {f \in [Orgs -> {None} \cup {Some(o) : o \in Orgs}] :
                  \A o \in Orgs : f[o] \in InitKboOf(o)}
  /\ kboOrgs \in {f \in [Orgs -> SeqsUpTo(OptTime, 1)] : \A o \in Orgs : f[o] \in InitKboOrgs(o)}
  /\ ovoStructs \in {f \in [Orgs -> SeqsUpTo(OptOvo, 1)] :
                       \A o \in Orgs : f[o] \in InitOvoStructs(o)}
  /\ \E records \in {f \in [Kbos -> {None} \cup {Some(r) : r \in Organisations}] :
                       \A k \in Kbos : f[k] \in InitRecord(k)} :
        wegwijs = PagesOf(records, 1)
  /\ Idle

\* A step of an invocation in flight: the await it is suspended at returns or
\* throws, or the synchronous code up to the next await runs.
Await(p) ==
  \/ getAbbOrganizationInfo(p)
  \/ getWegwijsOrganisation(p)
  \/ createOrUpdateKboOrg(p)
  \/ createKboOrg(p)
  \/ updateKboOrg(p)
  \/ createOrUpdateOvoStructure(p)
  \/ constructOvoStructure(p)
  \/ updateOvoNumberAndUri(p)
  \/ respondOk(p)
  \/ getAllAbbKboOrganizations(p)
  \/ getAllWegwijsOrganisations(p)
  \/ scroll(p)
  \/ forOf(p)

Step(p) ==
  \/ Request(p)
  \/ CronJob(p)
  \/ Await(p)

Next == \E p \in {"http", "cron"} : Step(p)

Spec == Init /\ [][Next]_vars

\* createOrUpdateKboOrg called on its own, with every combination of existing
\* links (none, one, two), snapshot (absent or present) and timestamps.
InitCall ==
  /\ kboOf = [o \in Orgs |-> Some(o)]
  /\ kboOrgs \in [Orgs -> SeqsUpTo(OptTime, 2)]
  /\ \A o \in Orgs : o # 1 => kboOrgs[o] = <<>>
  /\ ovoStructs = [o \in Orgs |-> <<>>]
  /\ wegwijs = <<>>
  /\ pc = [p \in Procs |-> IF p = "call" THEN "createOrUpdateKboOrg" ELSE "idle"]
  /\ runs = [p \in Procs |-> 0]
  /\ req = [p \in Procs |-> 0]
  /\ abbOrganizationInfo =
       [p \in Procs |-> IF p = "call"
                        THEN Some([org |-> 1, kbo |-> Some(1), ovo |-> None,
                                   ovoStructuredIdUri |-> None])
                        ELSE None]
  /\ \E fields \in {None} \cup {Some(getKboFields(r)) : r \in Organisations} :
       kboFields = [p \in Procs |-> IF p = "call" THEN fields ELSE None]
  /\ kboOrganizationInfo = [p \in Procs |-> None]
  /\ ovoStructuredIdUri = [p \in Procs |-> None]
  /\ allAbbKboOrganizations = [p \in Procs |-> <<>>]
  /\ organisations = [p \in Procs |-> [k \in Kbos |-> None]]
  /\ scrollPos = [p \in Procs |-> 0]
  /\ idx = [p \in Procs |-> 0]
  /\ log = [p \in Procs |-> <<>>]
  /\ res = [p \in Procs |-> <<>>]
  /\ err = [p \in Procs |-> None]

NextCall ==
  \/ createOrUpdateKboOrg("call")
  \/ createKboOrg("call")
  \/ updateKboOrg("call")

SpecCall == InitCall /\ [][NextCall]_vars

\* The paged fetch on its own, over every sequence of at most MaxPages pages of
\* at most MaxPageLen organisations (empty pages and repeated identifiers
\* included), started by a sweep over an empty population.
FetchOrganisations ==
  [kboNumber : Kbos, changeTime : {Some(t) : t \in Times}, ovoNumber : {None}]

InitFetch ==
  /\ kboOf = [o \in Orgs |-> None]
  /\ kboOrgs = [o \in Orgs |-> <<>>]
  /\ ovoStructs = [o \in Orgs |-> <<>>]
  /\ wegwijs \in SeqsUpTo(SeqsUpTo(FetchOrganisations, MaxPageLen), MaxPages)
  /\ Idle

NextFetch ==
  \/ CronJob("cron")
  \/ getAllAbbKboOrganizations("cron")
  \/ getAllWegwijsOrganisations("cron")
  \/ scroll("cron")
  \/ forOf("cron")

SpecFetch == InitFetch /\ [][NextFetch]_vars

\* The same trigger fired MaxRepeats times in succession with nothing else
\* running: a sweep after a sweep, or a request after a request for the same
\* record, each started once the one before has completed without exception.
MaxRepeats == 2

Again(p) ==
  /\ \A q \in Procs \ {p} : runs[q] = 0
  /\ runs[p] >= 1 => err[p] = None
  /\ \/ CronJobWithin(p, MaxRepeats)
     \/ /\ RequestWithin(p, MaxRepeats)
        /\ runs[p] >= 1 => req'[p] = req[p]

NextTwice ==
  \E p \in {"http", "cron"} :
    \/ Again(p)
    \/ Await(p)

SpecTwice == Init /\ [][NextTwice]_vars

\* The service during an outage of the registry: every request to it is
\* rejected, and every store call still returns or throws.  Both triggers fire
\* MaxRepeats times, the handler and the sweep running side by side.
Outage ==
  \A p \in Procs : \A i \in 1..Len(log[p]) : log[p][i].op = "fetch" => log[p][i].threw

OutageStep(p) ==
  \/ RequestWithin(p, MaxRepeats)
  \/ CronJobWithin(p, MaxRepeats)
  \/ getAbbOrganizationInfo(p)
  \/ getAllAbbKboOrganizations(p)
  \/ getWegwijsOrganisation(p) /\ Outage'
  \/ getAllWegwijsOrganisations(p) /\ Outage'

NextOutage == \E p \in {"http", "cron"} : OutageStep(p)

SpecOutage == Init /\ [][NextOutage]_vars

\* The handler and the sweep side by side over a registry that lists
\* organisation 2 twice, with an earlier and then a later changeTime: the
\* targeted query of the handler takes the first occurrence (app.js 166), the
\* mapping of the sweep the last (app.js 186-188).  The sweep runs MaxRuns
\* times, the handler answers MaxRepeats requests.
InitRace ==
  /\ kboOf = [o \in Orgs |-> Some(o)]
  /\ kboOrgs \in [Orgs -> {<<>>, <<None>>}]
  /\ ovoStructs = [o \in Orgs |-> <<>>]
  /\ wegwijs = << <<[kboNumber |-> 1, changeTime |-> Some(1), ovoNumber |-> Some("OVO001")]>>,
                  <<[kboNumber |-> 2, changeTime |-> Some(1), ovoNumber |-> None]>>,
                  <<[kboNumber |-> 2, changeTime |-> Some(MaxTime), ovoNumber |-> None]>> >>
  /\ Idle

NextRace ==
  \E p \in {"http", "cron"} :
    \/ RequestWithin(p, MaxRepeats)
    \/ CronJobWithin(p, MaxRuns)
    \/ Await(p)

SpecRace == InitRace /\ [][NextRace]_vars

\* The sweep on its own, with every collaborator call it awaits eventually
\* returning or throwing and its continuation then run by the event loop.
SweepStep ==
  \/ getAllAbbKboOrganizations("cron")
  \/ getAllWegwijsOrganisations("cron")
  \/ scroll("cron")
  \/ forOf("cron")
  \/ createOrUpdateKboOrg("cron")
  \/ createKboOrg("cron")
  \/ updateKboOrg("cron")
  \/ createOrUpdateOvoStructure("cron")
  \/ constructOvoStructure("cron")
  \/ updateOvoNumberAndUri("cron")

NextSweep ==
  \/ CronJob("cron")
  \/ SweepStep

SpecSweep == Init /\ [][NextSweep]_vars /\ WF_vars(SweepStep)

\* ------------------------------------------------- properties
KboWriteOps == {"createKboOrg", "updateKboOrg"}
OvoOps == {"constructOvoStructure", "updateOvoNumberAndUri"}
WriteOps == KboWriteOps \cup OvoOps

\* The calls with an operation of `ops` in a log.
Calls(l, ops) == SelectSeq(l, LAMBDA c : c.op \in ops)
\* The calls of invocation p for organisation o with an operation of `ops`.
CallsFor(p, o, ops) == SelectSeq(log[p], LAMBDA c : c.op \in ops /\ c.org = o)

\* Invocation p has finished both reconciliation steps of its current record
\* without an exception.
Reconciled(p) ==
  /\ abbOrganizationInfo[p] # None
  /\ kboFields[p] # None
  /\ \/ pc[p] \in {"return", "forOf"}
     \/ pc[p] = "done" /\ err[p] = None

\* C1: one call of createOrUpdateKboOrg whose read of the existing link
\* returned issues exactly one createKboOrg and no update when the link is
\* absent and the snapshot present; exactly one updateKboOrg and no create when
\* link and snapshot are present, the external changeTime is present and the
\* internal timestamp is absent or strictly earlier; and no store write in
\* every other case.  It never issues both a create and an update.
C1_CreateUpdateOrNoOp ==
  (pc["call"] = "done" /\ Len(log["call"]) >= 1 /\ ~log["call"][1].threw) =>
    LET link == kboOrganizationInfo["call"]
        snapshot == kboFields["call"]
        creates == Len(Calls(log["call"], {"createKboOrg"}))
        updates == Len(Calls(log["call"], {"updateKboOrg"}))
        writes == Len(Calls(log["call"], WriteOps))
        later == /\ link # None
                 /\ snapshot # None
                 /\ snapshot[1].changeTime # None
                 /\ \/ link[1].modified = None
                    \/ snapshot[1].changeTime[1] > link[1].modified[1]
    IN /\ (link = None) = (kboOrgs[1] = <<>> \/ creates = 1)
       /\ (link = None /\ snapshot # None) => (creates = 1 /\ updates = 0 /\ writes = 1)
       /\ later => (updates = 1 /\ creates = 0 /\ writes = 1)
       /\ (~(link = None /\ snapshot # None) /\ ~later) => writes = 0
       /\ ~(creates >= 1 /\ updates >= 1)

\* An update was issued over a link that carried an earlier timestamp.
C1_Witness ==
  /\ pc["call"] = "done"
  /\ kboOrganizationInfo["call"] # None
  /\ kboOrganizationInfo["call"][1].modified # None
  /\ Len(Calls(log["call"], {"updateKboOrg"})) = 1
  /\ ~log["call"][2].threw

\* C2: whenever the external snapshot's OVO value is absent or equals the
\* internal OVO value, neither constructOvoStructure nor updateOvoNumberAndUri
\* is issued for that record, whatever the internal OVO value and OVO-structure
\* URI are, on the sweep path and on the single-record path.
C2_OvoPreserved ==
  \A p \in {"http", "cron"} :
    (abbOrganizationInfo[p] # None /\ kboFields[p] # None) =>
      LET a == abbOrganizationInfo[p][1]
          f == kboFields[p][1]
      IN (f.ovoNumber = None \/ f.ovoNumber = a.ovo) => CallsFor(p, a.org, OvoOps) = <<>>

\* The sweep and the handler have each passed a record that has an OVO value
\* while the registry has none for it.
C2_Witness ==
  \A p \in {"http", "cron"} :
    /\ Reconciled(p)
    /\ kboFields[p][1].ovoNumber = None
    /\ abbOrganizationInfo[p][1].ovo # None
    /\ abbOrganizationInfo[p][1].ovoStructuredIdUri # None

\* C3: when the external OVO value is present and differs from the internal
\* one, the OVO calls issued for the record are, in this order: with no
\* OVO-structure URI, one constructOvoStructure anchored to the structured
\* identifier URI and then one updateOvoNumberAndUri of the URI it returned
\* with the external value; with an OVO-structure URI, the one
\* updateOvoNumberAndUri of that URI and no construction.  A call that throws
\* ends the sequence; a record reconciled without exception has all of it.
C3_ConstructThenWrite ==
  \A p \in {"http", "cron"} :
    (abbOrganizationInfo[p] # None /\ kboFields[p] # None) =>
      LET a == abbOrganizationInfo[p][1]
          f == kboFields[p][1]
          calls == CallsFor(p, a.org, OvoOps)
      IN (f.ovoNumber # None /\ f.ovoNumber # a.ovo) =>
           IF a.ovoStructuredIdUri = None
           THEN /\ Len(calls) <= 2
                /\ Len(calls) >= 1 =>
                     /\ calls[1].op = "constructOvoStructure"
                     /\ calls[1].uri = KboStructuredIdUri(a.org)
                /\ Len(calls) = 2 =>
                     /\ ~calls[1].threw
                     /\ calls[2].op = "updateOvoNumberAndUri"
                     /\ calls[2].uri = calls[1].ret[1]
                     /\ calls[2].ovo = f.ovoNumber
                /\ Reconciled(p) => (Len(calls) = 2 /\ ~calls[2].threw)
           ELSE /\ Len(calls) <= 1
                /\ Len(calls) = 1 =>
                     /\ calls[1].op = "updateOvoNumberAndUri"
                     /\ calls[1].uri = a.ovoStructuredIdUri[1]
                     /\ calls[1].ovo = f.ovoNumber
                /\ Reconciled(p) => (Len(calls) = 1 /\ ~calls[1].threw)

\* A structure was constructed for a record without one and the external
\* value written to it; the store holds that value at the new URI.
C3_Witness ==
  \E p \in {"http", "cron"} :
    /\ Reconciled(p)
    /\ abbOrganizationInfo[p][1].ovoStructuredIdUri = None
    /\ Len(CallsFor(p, abbOrganizationInfo[p][1].org, OvoOps)) = 2
    /\ ovoStructs[abbOrganizationInfo[p][1].org] = <<kboFields[p][1].ovoNumber>>

\* C4: when the record read by the handler is missing or carries no business
\* identifier, the handler answers STATUS_NO_DATA_OP and the read is the only
\* call of the request: no registry query, no store write.
C4_NoInternalIdentifier ==
  (/\ Len(log["http"]) >= 1
   /\ ~log["http"][1].threw
   /\ \/ abbOrganizationInfo["http"] = None
      \/ abbOrganizationInfo["http"][1].kbo = None) =>
    /\ pc["http"] = "done"
    /\ res["http"] = <<"STATUS_NO_DATA_OP">>
    /\ Len(log["http"]) = 1
    /\ log["http"][1].op = "getAbbOrganizationInfo"

\* The handler has read a record that carries no business identifier.
C4_Witness ==
  /\ pc["http"] = "done"
  /\ abbOrganizationInfo["http"] # None
  /\ abbOrganizationInfo["http"][1].kbo = None
  /\ res["http"] = <<"STATUS_NO_DATA_OP">>

\* C5: when the registry's answer to the query for the record's business
\* identifier is empty, the handler answers ERROR_NO_DATA_WEGWIJS and issues no
\* store write: the read and the query are the only calls of the request.
C5_NoExternalMatch ==
  (/\ Len(log["http"]) >= 2
   /\ log["http"][2].op = "fetch"
   /\ ~log["http"][2].threw
   /\ wegwijsSearch(log["http"][2].org) = <<>>) =>
    /\ pc["http"] = "done"
    /\ res["http"] = <<"ERROR_NO_DATA_WEGWIJS">>
    /\ Len(log["http"]) = 2
    /\ Calls(log["http"], WriteOps) = <<>>

\* The query for a record with a business identifier came back empty.
C5_Witness ==
  /\ pc["http"] = "done"
  /\ abbOrganizationInfo["http"] # None
  /\ abbOrganizationInfo["http"][1].kbo # None
  /\ Len(log["http"]) = 2
  /\ ~log["http"][2].threw
  /\ kboFields["http"] = None

\* The handler's request has ended.
Answered == pc["http"] = "done"
\* The record read by the handler is missing or carries no business identifier.
NoInternalIdentifier ==
  /\ Len(log["http"]) >= 1
  /\ ~log["http"][1].threw
  /\ \/ abbOrganizationInfo["http"] = None
     \/ abbOrganizationInfo["http"][1].kbo = None
\* The registry had no organisation for the record's business identifier.
NoExternalMatch ==
  /\ Len(log["http"]) >= 2
  /\ ~log["http"][2].threw
  /\ wegwijsSearch(log["http"][2].org) = <<>>

\* C6: a single-record sync ends after one pass in exactly one of the four
\* outcomes, with exactly one response sent and none sent before the end; no
\* call is issued twice; an exception thrown by any step ends the request at
\* once with CUSTOM_SERVER_ERROR, and CUSTOM_SERVER_ERROR is sent for nothing
\* else; a request that has not ended can always take its next step.
C6_OneOutcome ==
  LET l == log["http"] IN
  /\ Answered =>
       /\ Len(res["http"]) = 1
       /\ res["http"][1] \in {"STATUS_NO_DATA_OP", "ERROR_NO_DATA_WEGWIJS", "OK",
                              "CUSTOM_SERVER_ERROR"}
       /\ (res["http"][1] = "CUSTOM_SERVER_ERROR") = (err["http"] # None)
  /\ pc["http"] = "idle" => res["http"] = <<>>
  /\ pc["http"] \notin {"idle", "done"} =>
       /\ res["http"] = <<>>
       /\ err["http"] = None
       /\ ENABLED Step("http")
  /\ \A i \in 1..Len(l) :
       l[i].threw => (i = Len(l) /\ Answered /\ err["http"] # None)
  /\ err["http"] # None => (Len(l) >= 1 /\ l[Len(l)].threw)
  /\ \A i, j \in 1..Len(l) : i < j => l[i].op # l[j].op

\* The last store write of a request threw and the request was answered with
\* the server error.
C6_Witness ==
  /\ Answered
  /\ err["http"] = Some("updateOvoNumberAndUri")
  /\ Len(Calls(log["http"], {"constructOvoStructure"})) = 1
  /\ res["http"] = <<"CUSTOM_SERVER_ERROR">>

\* C7 as stated: only an UnhandledError is answered with the generic server
\* error; the other kinds each have a response of their own.
C7_OnlyUnhandledIsServerError ==
  (Answered /\ res["http"] = <<"CUSTOM_SERVER_ERROR">>) =>
    (err["http"] # None /\ ErrorKind(err["http"][1]) = "UnhandledError")

\* C7 (amended): NoInternalIdentifier and NoExternalMatch each have a response
\* of their own (STATUS_NO_DATA_OP, ERROR_NO_DATA_WEGWIJS); every exception,
\* whatever its kind (UpstreamFetchError, UpstreamShapeError, PersistenceError,
\* UnhandledError), is answered with the one CUSTOM_SERVER_ERROR; a request
\* without any of these is answered OK.
C7_ErrorMapping ==
  Answered =>
    /\ NoInternalIdentifier = (res["http"] = <<"STATUS_NO_DATA_OP">>)
    /\ NoExternalMatch = (res["http"] = <<"ERROR_NO_DATA_WEGWIJS">>)
    /\ (err["http"] # None) = (res["http"] = <<"CUSTOM_SERVER_ERROR">>)
    /\ (~NoInternalIdentifier /\ ~NoExternalMatch /\ err["http"] = None) =
         (res["http"] = <<"OK">>)

\* A rejected registry request was answered with the generic server error.
C7_Witness ==
  /\ Answered
  /\ err["http"] # None
  /\ ErrorKind(err["http"][1]) = "UpstreamFetchError"
  /\ res["http"] = <<"CUSTOM_SERVER_ERROR">>

\* A write of the sweep's log is in the store: the KBO organisation carries
\* the snapshot's timestamp, the constructed structure exists, the structure
\* written to holds the value written.
StoreHolds(c) ==
  IF c.op \in KboWriteOps
  THEN \E n \in 1..Len(kboOrgs[c.org]) :
         kboOrgs[c.org][n] = organisations["cron"][kboOf[c.org][1]][1].changeTime
  ELSE IF c.op = "constructOvoStructure"
  THEN c.ret[1][3] <= Len(ovoStructs[c.org])
  ELSE ovoStructs[c.uri[2]][c.uri[3]] = c.ovo

\* C8: when a call throws while the sweep processes its k-th record, the sweep
\* is over: the throwing call is its last call and the only one that threw, no
\* call was issued for a later record, no call was issued twice for a record,
\* and every write that returned before (for records 1..k-1 and for record k)
\* is in the store.
C8_SweepAborts ==
  (pc["cron"] = "done" /\ err["cron"] # None /\ idx["cron"] >= 1) =>
    LET l == log["cron"]
        all == allAbbKboOrganizations["cron"]
        k == idx["cron"]
    IN /\ l[Len(l)].threw
       /\ l[Len(l)].org = all[k].org
       /\ \A i \in 1..(Len(l) - 1) : ~l[i].threw
       /\ \A j \in (k + 1)..Len(all) : \A i \in 1..Len(l) : l[i].org # all[j].org
       /\ \A i, j \in 1..Len(l) :
            (i < j /\ l[i].org # 0 /\ l[i].org = l[j].org) => l[i].op # l[j].op
       /\ \A i \in 1..Len(l) : (l[i].op \in WriteOps /\ ~l[i].threw) => StoreHolds(l[i])

\* The sweep failed at its second record after a write for the first and a
\* write for the second had returned, with a third store call never issued.
C8_Witness ==
  /\ pc["cron"] = "done"
  /\ err["cron"] # None
  /\ idx["cron"] = 2
  /\ \E i \in 1..Len(log["cron"]) :
       /\ log["cron"][i].op \in WriteOps
       /\ ~log["cron"][i].threw
       /\ log["cron"][i].org = allAbbKboOrganizations["cron"][1].org
  /\ \E i \in 1..Len(log["cron"]) :
       /\ log["cron"][i].op \in WriteOps
       /\ ~log["cron"][i].threw
       /\ log["cron"][i].org = allAbbKboOrganizations["cron"][2].org

\* C9: when a request of the paged fetch fails (the initial request, its
\* x-search-metadata header, a body, or a scroll request), that request is the
\* sweep's last call: the sweep ends with the error, the loop over the
\* population is never entered and no store read or write of reconciliation is
\* issued, whatever the pages fetched before held.
C9_FetchFailureNoWrites ==
  LET l == log["cron"] IN
  \A i \in 1..Len(l) :
    (l[i].op \in {"fetch", "scroll"} /\ l[i].threw) =>
      /\ i = Len(l)
      /\ pc["cron"] = "done"
      /\ err["cron"] # None
      /\ err["cron"][1] \in {"fetch", "x-search-metadata", "response.json"}
      /\ idx["cron"] = 0
      /\ abbOrganizationInfo["cron"] = None
      /\ Calls(l, WriteOps \cup {"getKboOrganizationInfo"}) = <<>>

\* A scroll request failed after a page holding the record of an organisation
\* of the population had been fetched and folded.
C9_Witness ==
  /\ Len(log["cron"]) >= 1
  /\ log["cron"][Len(log["cron"])].op = "scroll"
  /\ log["cron"][Len(log["cron"])].threw
  /\ \E j \in 1..Len(allAbbKboOrganizations["cron"]) :
       organisations["cron"][allAbbKboOrganizations["cron"][j].kbo[1]] # None

\* The organisations of the pages fetched by invocation p, in page order.
Fetched(p) == Flatten([k \in 1..scrollPos[p] |-> wegwijsPage(k)])

\* C10: the mapping the paged fetch returns has as keys exactly the business
\* identifiers of the organisations of the pages fetched (the initial page and
\* every scroll page up to the empty one that ended the fetch), and maps each
\* identifier to the fields of its last occurrence in page order.
C10_MappingOfFetchedPages ==
  (pc["cron"] \in {"forOf", "done"} /\ err["cron"] = None) =>
    LET fetched == Fetched("cron")
        m == organisations["cron"]
    IN /\ scrollPos["cron"] >= 2
       /\ wegwijsPage(scrollPos["cron"]) = <<>>
       /\ {k \in Kbos : m[k] # None} = {fetched[i].kboNumber : i \in 1..Len(fetched)}
       /\ \A i \in 1..Len(fetched) :
            (\A j \in (i + 1)..Len(fetched) : fetched[j].kboNumber # fetched[i].kboNumber)
              => m[fetched[i].kboNumber] = Some(getKboFields(fetched[i]))

\* The fetch returned after three pages in which one identifier occurs twice
\* with different fields.
C10_Witness ==
  /\ pc["cron"] = "forOf"
  /\ scrollPos["cron"] >= 3
  /\ \E i, j \in 1..Len(Fetched("cron")) :
       /\ i < j
       /\ Fetched("cron")[i].kboNumber = Fetched("cron")[j].kboNumber
       /\ Fetched("cron")[i].changeTime # Fetched("cron")[j].changeTime

\* The number of the first page of the registry's page sequence that holds no
\* organisation (the page after the last one at the latest).
FirstEmptyPage ==
  CHOOSE k \in 1..(Len(wegwijs) + 1) :
    /\ wegwijsPage(k) = <<>>
    /\ \A j \in 1..(k - 1) : wegwijsPage(j) # <<>>

\* C11: once a response of the page sequence, the initial response or a scroll
\* response, holds no organisation, no further page is requested: every
\* response received before the last one was non-empty, and the mapping holds
\* no organisation of a page after the first empty one.
C11_StopsOnFirstEmptyPage ==
  LET received == scrollPos["cron"]
      m == organisations["cron"]
      before == Flatten([k \in 1..(FirstEmptyPage - 1) |-> wegwijsPage(k)])
  IN /\ \A k \in 1..(received - 1) : wegwijsPage(k) # <<>>
     /\ \A k \in Kbos :
          m[k] # None => \E i \in 1..Len(before) : m[k] = Some(getKboFields(before[i]))

\* C12: a run that follows a completed run of the same trigger (a sweep after
\* a sweep, a request after a request for the same record), with the registry
\* unchanged and nothing else writing to the store, issues no createKboOrg, no
\* updateKboOrg, no constructOvoStructure and no updateOvoNumberAndUri.
C12_SecondRunWritesNothing ==
  \A p \in {"http", "cron"} : runs[p] >= 2 => Calls(log[p], WriteOps) = <<>>

\* A second run has passed organisation 2 after the first run gave it its link
\* and its OVO structure.
C12_Witness ==
  \E p \in {"http", "cron"} :
    /\ runs[p] = 2
    /\ pc[p] = "done"
    /\ err[p] = None
    /\ kboOrgs[2] = <<Some(MaxTime)>>
    /\ ovoStructs[2] = <<Some("OVO002")>>
    /\ CallsFor(p, 2, {"getKboOrganizationInfo"}) # <<>>

\* During the outage the service goes on: an invocation in flight can take its
\* next step, and a trigger that has runs left is accepted.
Serving ==
  \A p \in {"http", "cron"} :
    (runs[p] < MaxRepeats \/ pc[p] \notin {"idle", "done"}) => ENABLED OutageStep(p)

\* C13 as stated: during the outage every sweep ends with its error logged and
\* swallowed, every request ends with the server-error response, and the
\* service goes on accepting and processing the next run and the next request.
C13_EveryRequestServerError ==
  /\ pc["cron"] = "done" => err["cron"] # None
  /\ pc["http"] = "done" => res["http"] = <<"CUSTOM_SERVER_ERROR">>
  /\ Serving

\* C13: during an outage of the registry, with store calls failing or not, every
\* sweep ends with its error logged and swallowed; every request in which a
\* call failed ends with the server-error response, and the only other
\* requests are those that never query the registry and end with
\* STATUS_NO_DATA_OP; after each of these the service goes on accepting and
\* processing the next run and the next request.
C13_OutageNeverStopsService ==
  /\ pc["cron"] = "done" => err["cron"] # None
  /\ pc["http"] = "done" =>
       IF err["http"] # None
       THEN res["http"] = <<"CUSTOM_SERVER_ERROR">>
       ELSE /\ res["http"] = <<"STATUS_NO_DATA_OP">>
            /\ Calls(log["http"], {"fetch"}) = <<>>
  /\ Serving

\* The second sweep and the second request have both ended on a rejected
\* registry request.
C13_Witness ==
  /\ \A p \in {"http", "cron"} : runs[p] = 2 /\ pc[p] = "done" /\ err[p] = Some("fetch")
  /\ res["http"] = <<"CUSTOM_SERVER_ERROR">>

\* The calls of the business-identifier step (createOrUpdateKboOrg).
KboStepOps == {"getKboOrganizationInfo"} \cup KboWriteOps

\* In the log of invocation p every call with an operation of `first` comes
\* before every call with an operation of `second` for the same organisation.
Precede(p, first, second) ==
  \A i, j \in 1..Len(log[p]) :
    (log[p][i].op \in first /\ log[p][j].op \in second /\ log[p][i].org = log[p][j].org)
      => i < j

PositionOf(o) ==
  LET all == allAbbKboOrganizations["cron"]
  IN IF \E i \in 1..Len(all) : all[i].org = o
     THEN CHOOSE i \in 1..Len(all) : all[i].org = o
     ELSE 0

\* C15: the sweep takes the records one after the other in population order:
\* the store calls of its log are grouped by record in that order and are all
\* for records the loop has reached; a record without an entry in the mapping
\* has no store call at all and raises no error (an exception, when there is
\* one, is that of the last call issued), and the sweep goes on past it, to
\* complete only after it has taken every record.
C15_SequentialInPopulationOrder ==
  LET all == allAbbKboOrganizations["cron"]
      l == log["cron"]
      m == organisations["cron"]
  IN /\ \A i, j \in 1..Len(l) :
          (i < j /\ l[i].org # 0 /\ l[j].org # 0) =>
            /\ PositionOf(l[i].org) >= 1
            /\ PositionOf(l[i].org) <= PositionOf(l[j].org)
     /\ \A i \in 1..Len(l) : l[i].org # 0 => PositionOf(l[i].org) \in 1..idx["cron"]
     /\ \A k \in 1..idx["cron"] :
          m[all[k].kbo[1]] = None => SelectSeq(l, LAMBDA c : c.org = all[k].org) = <<>>
     /\ err["cron"] # None => (Len(l) >= 1 /\ l[Len(l)].threw)
     /\ pc["cron"] = "forOf" => ENABLED forOf("cron")
     /\ (pc["cron"] = "done" /\ err["cron"] = None) => idx["cron"] = Len(all)

\* The sweep has completed over a population of two records, the first of
\* which had no entry in the mapping and the second of which was written.
C15_Witness ==
  LET all == allAbbKboOrganizations["cron"]
  IN /\ pc["cron"] = "done"
     /\ err["cron"] = None
     /\ Len(all) = 2
     /\ organisations["cron"][all[1].kbo[1]] = None
     /\ Calls(SelectSeq(log["cron"], LAMBDA c : c.org = all[2].org), WriteOps) # <<>>

\* C16: nothing serialises the sweep and the handler: an invocation in flight
\* can always take its next step, whatever the other invocation has read and
\* not yet written.  (The interleavings the claim names are the states of
\* C16_Witness.)
C16_NoMutualExclusion ==
  \A p \in {"http", "cron"} : pc[p] \notin {"idle", "done"} => ENABLED Await(p)

\* Duplicate create: organisation 1, which had no link, has two after the sweep
\* and a request each read "no link" and then created one.  Lost update: for
\* organisation 2 the sweep and a request both read the link without
\* timestamp, the sweep wrote the later changeTime, and the request then wrote
\* the earlier one over it.
C16_Witness ==
  /\ Len(kboOrgs[1]) = 2
  /\ Len(CallsFor("cron", 1, {"createKboOrg"})) = 1
  /\ kboOrgs[2] = <<Some(1)>>
  /\ \A p \in {"http", "cron"} :
       /\ Len(CallsFor(p, 2, {"updateKboOrg"})) = 1
       /\ ~CallsFor(p, 2, {"updateKboOrg"})[1].threw
  /\ organisations["cron"][2] # None
  /\ organisations["cron"][2][1].changeTime = Some(MaxTime)
  /\ kboOrganizationInfo["http"] = Some([org |-> 2, n |-> 1, modified |-> None])

\* The constructOvoStructure calls of invocation p for organisation o that
\* returned.
Constructed(p, o) ==
  SelectSeq(log[p], LAMBDA c : c.op = "constructOvoStructure" /\ c.org = o /\ ~c.threw)

\* C17: every internal record has zero or one OVO structure, and a
\* constructOvoStructure call succeeds at most once for an organisation's
\* structured identifier, never for one that has a structure, the sweep
\* deciding from the URI it read at its start included.
C17_AtMostOneOvoStructure ==
  \A o \in Orgs :
    /\ Len(ovoStructs[o]) <= 1
    /\ Len(Constructed("http", o)) + Len(Constructed("cron", o)) <= 1

\* The sweep has ended: after the last record of the population, every record
\* taken exactly once (one read of its link when the mapping has an entry for
\* it, no call otherwise), or at the call that threw.
SweepEnded ==
  LET all == allAbbKboOrganizations["cron"]
      l == log["cron"]
  IN /\ pc["cron"] = "done"
     /\ IF err["cron"] = None
        THEN /\ idx["cron"] = Len(all)
             /\ \A k \in 1..Len(all) :
                  Len(CallsFor("cron", all[k].org, {"getKboOrganizationInfo"})) =
                    IF organisations["cron"][all[k].kbo[1]] # None THEN 1 ELSE 0
        ELSE Len(l) >= 1 /\ l[Len(l)].threw

\* C18: with a finite population, a page sequence that ends in an empty page
\* and collaborator calls that each return or throw, a sweep that has started
\* eventually ends, either completed after taking every record exactly once or
\* at its first failure; it never stays where it is nor loops for ever.
C18_SweepTerminates ==
  /\ [](pc["cron"] = "done" => SweepEnded)
  /\ (pc["cron"] \notin {"idle", "done"}) ~> SweepEnded

\* The sweep has completed over two records, both written, after a fetch of
\* three pages.
C18_Witness ==
  /\ SweepEnded
  /\ err["cron"] = None
  /\ Len(allAbbKboOrganizations["cron"]) = 2
  /\ scrollPos["cron"] = 3
  /\ \A o \in Orgs : Calls(SelectSeq(log["cron"], LAMBDA c : c.org = o), WriteOps) # <<>>

\* C19: on the single-record path the OVO step starts only after the
\* business-identifier step has returned: every OVO call follows a read of the
\* link that returned and no call of the business-identifier step that threw;
\* when the business-identifier step throws, no OVO call is issued; and when
\* the OVO step throws, the request is answered with the server error while
\* the link the business-identifier step wrote is still in the store with the
\* changeTime it wrote.
C19_OvoStepOnlyAfterKboStep ==
  LET l == log["http"]
      threwIn(ops) == err["http"] # None /\ err["http"][1] \in ops
  IN /\ \A j \in 1..Len(l) :
          l[j].op \in OvoOps =>
            /\ \E i \in 1..(j - 1) : l[i].op = "getKboOrganizationInfo" /\ ~l[i].threw
            /\ \A i \in 1..(j - 1) : l[i].op \in KboStepOps => ~l[i].threw
     /\ pc["http"] \in {"createOrUpdateOvoStructure"} \cup OvoOps =>
          /\ Calls(l, {"getKboOrganizationInfo"}) # <<>>
          /\ \A i \in 1..Len(l) : ~l[i].threw
     /\ threwIn(KboStepOps) => Calls(l, OvoOps) = <<>>
     /\ (threwIn(OvoOps) /\ pc["http"] = "done") =>
          /\ res["http"] = <<"CUSTOM_SERVER_ERROR">>
          /\ \A i \in 1..Len(l) :
               (l[i].op \in KboWriteOps /\ ~l[i].threw) =>
                 \E n \in 1..Len(kboOrgs[l[i].org]) :
                   kboOrgs[l[i].org][n] = kboFields["http"][1].changeTime

\* A request has created the link, failed in the OVO step and been answered
\* with the server error; the link is in the store.
C19_Witness ==
  /\ pc["http"] = "done"
  /\ err["http"] \in {Some(op) : op \in OvoOps}
  /\ res["http"] = <<"CUSTOM_SERVER_ERROR">>
  /\ \E o \in Orgs :
       /\ Len(CallsFor("http", o, {"createKboOrg"})) = 1
       /\ ~CallsFor("http", o, {"createKboOrg"})[1].threw
       /\ Len(CallsFor("cron", o, KboWriteOps)) = 0
       /\ kboOrgs[o] = <<kboFields["http"][1].changeTime>>
====
